---------------------------- MODULE Spec2Model ----------------------------
(***************************************************************************)
(* A model of three parts of the Moon-Mod-Tools bot:                       *)
(*                                                                         *)
(*   - the message-deletion logger (src/modules/logger/events/log.mjs):    *)
(*     the raw MESSAGE_DELETE packet handler, the messageDelete handler    *)
(*     and the shared messageDeleteTimer flag that ties them together;     *)
(*   - the Application helpers and the reload command                      *)
(*     (src/events/shutdown.mjs): safeImport, importJSON, toModulePath,    *)
(*     loadOptions and the reload handler.                                 *)
(*   - the pit manager (src/unnamed/part_000): pit, which records a        *)
(*     user's timeout in the pits table, updates the role and notifies.    *)
(*                                                                         *)
(* JavaScript runs the handlers on one thread: a handler runs without      *)
(* interruption up to its next await, so every action below is one such    *)
(* run-to-await segment of a handler instance.  The platform calls the     *)
(* handlers await (channel fetches, logChannel.send, interaction.reply)    *)
(* are taken to succeed.                                                   *)
(***************************************************************************)
EXTENDS Integers, Sequences, FiniteSets, TLC

(***************************************************************************)
(* Bounds of the model.                                                    *)
(***************************************************************************)
\* Deletions the environment announces in one behaviour.
MaxDeletions == 3
\* Time passes in steps of TickMs.
TickMs == 250
\* A cached message's two notifications come from one gateway packet: the
\* second arrives at most MaxSkew after the first.
MaxSkew == 250

\* Calls of safeImport, importJSON and the reload command in one behaviour.
MaxCalls == 2
\* Milliseconds the clock advances, and edits of the files on disk.
MaxClock == 1
MaxEdits == 1
\* Command-line arguments given to the application.
MaxArgs == 3
\* Calls of pit in one behaviour, and the longest duration asked for (the
\* durations are in the unit of the clock).
MaxPitCalls == 2
MaxDuration == 1

(***************************************************************************)
(* Program constants.                                                      *)
(***************************************************************************)
\* log.mjs:219, the delay given to setTimeout.
Window == 500

Msgs == 1..MaxDeletions
\* The guild of the log channel, and another guild the bot is in.
LogGuild == "home"
Guilds == {"home", "other"}

VARIABLES
  messageDeleteTimer, \* log.mjs:10, the module-level flag
  timeouts,           \* the runtime's scheduled, uncancelled timeouts, each with
                      \* the time in ms since setTimeout scheduled it
  msg,                \* per message: announced?, cached?, guildId
  waited,             \* per message: ms passed between its two notifications
  rawPc,              \* per message: position of its raw() handler instance
  delPc,              \* per message: position of messageDelete(structured message)
  synPc,              \* per message: position of messageDelete(synthesized message)
  emitAge,            \* per message: ms from setTimeout to the callback's emit
  cancelledBy,        \* per message: which messageDelete call cleared its timeout
  sent,               \* the 'Message Deleted' logs logChannel.send was called with
                      \* (a handler instance sends at most one, so a set holds them)
  budget,             \* deletions the environment may still announce
  serial              \* TRUE: the environment announces one deletion at a time

delVars == <<messageDeleteTimer, timeouts, msg, waited, rawPc, delPc, synPc,
             emitAge, cancelledBy, sent, budget, serial>>

\* The loader and the reload command (src/events/shutdown.mjs).
VARIABLES
  clock,              \* Date.now(), in ms
  files,              \* per resolved path: the file on disk
  moduleCache,        \* the host's module cache: locator -> evaluated module
  calls,              \* per call: the handler instance and what it has done
  loads,              \* the locators handed to import(), in order
  installed           \* the registry: per path, the version of the installed unit

loaderVars == <<clock, files, moduleCache, calls, loads, installed>>

\* Application.loadOptions (src/events/shutdown.mjs).
VARIABLES
  argv,               \* process.argv.slice(2)
  multiples,          \* loadOptions' options.multiples
  aliases,            \* loadOptions' options.aliases, in key order
  options,            \* Application.options
  roles,              \* per argument: how loadOptions took it, "flag" or "value"
  stores,             \* the assignments to this.options[flag], in order
  optPc               \* "start" before loadOptions ran, "done" after

optVars == <<argv, multiples, aliases, options, roles, stores, optPc>>

\* The pit manager (src/unnamed/part_000, module modules/pitbot/pitManager).
VARIABLES
  pits,               \* the rows of the pits table, in insertion order
  pitCalls,           \* per call of pit: its arguments, position and effects
  pitSerial           \* TRUE: pit is called only when no call of it is running

pitVars == <<pits, pitCalls, pitSerial>>

vars == <<delVars, loaderVars, optVars, pitVars>>

(***************************************************************************)
(* JavaScript values of messageDeleteTimer: undefined (never assigned),    *)
(* null, true, or the Timeout object setTimeout returned.  The Timeout     *)
(* armed by the raw packet of message m is identified by m: raw() runs     *)
(* once per packet and calls setTimeout at most once.                      *)
(***************************************************************************)
Undefined == [tag |-> "undefined", id |-> 0]
Null == [tag |-> "null", id |-> 0]
True == [tag |-> "true", id |-> 0]
TimeoutOf(m) == [tag |-> "timeout", id |-> m]

\* JavaScript truthiness of those values.
Truthy(v) == v.tag \in {"true", "timeout"}

\* A timeout that has not fired and has not been cleared.
Pending(m) == \E t \in timeouts : t.id = m

\* A slip: setTimeout called without its delay, so that the callback is due
\* at once.
setTimeout_NoDelay(ts, m, delay) == ts \cup {[id |-> m, age |-> 0, delay |-> 0]}

\* setTimeout(cb, delay) called for message m.
setTimeout(ts, m, delay) == ts \cup {[id |-> m, age |-> 0, delay |-> delay]}

\* A slip: the flag is reset but the timeout is left scheduled.
clearTimeout_Forgotten(ts, v) == ts

\* clearTimeout(v): unschedules v when v is a scheduled Timeout; any other
\* value (true, a Timeout that already fired) is ignored.
clearTimeout(ts, v) ==
  IF v.tag = "timeout" THEN {t \in ts : t.id # v.id} ELSE ts

\* The runtime runs a timeout's callback no earlier than its delay.
TimerDue(t) == t.age >= t.delay

NoOne == [chan |-> "none", id |-> 0]

(***************************************************************************)
(* messageDelete, lines 137-142: the synchronous prologue, run by the      *)
(* emit of a structured event and by the emit inside the timeout callback. *)
(* ts is the set of scheduled timeouts as the call starts, `by` names the  *)
(* call (channel and message) for the cancellation record.                 *)
(***************************************************************************)
messageDeleteEnter(ts, by) ==
  IF Truthy(messageDeleteTimer)
  THEN /\ timeouts' = clearTimeout(ts, messageDeleteTimer)
       /\ cancelledBy' =
            [m \in Msgs |->
               IF messageDeleteTimer.tag = "timeout" /\ messageDeleteTimer.id = m
                  /\ (\E t \in ts : t.id = m)
               THEN by ELSE cancelledBy[m]]
       /\ messageDeleteTimer' = Null
  ELSE /\ timeouts' = ts
       /\ cancelledBy' = cancelledBy
       /\ messageDeleteTimer' = True

(***************************************************************************)
(* The environment: the gateway announces the deletion of message m.       *)
(* Discord.js emits messageDelete only for a cached message (log.mjs:8);   *)
(* raw is emitted for every packet.  Messages are numbered in the order of *)
(* their first notification.                                               *)
(***************************************************************************)
Announced(m) == msg[m].announced

\* Every notification of message m has been handled to the end: its raw
\* handler returned, its structured handler (a cached message has one)
\* returned, and no timeout or synthesized handler of it is outstanding.
Handled(m) ==
  /\ rawPc[m] = "done"
  /\ msg[m].cached => delPc[m] = "done"
  /\ delPc[m] # "fetchLog"
  /\ ~Pending(m)
  /\ synPc[m] # "fetchLog"

\* No deletion is in flight.
Quiescent == \A m \in Msgs : Announced(m) => Handled(m)

NextMsg(m) == /\ ~Announced(m)
              /\ \A k \in Msgs : k < m => Announced(k)
              /\ budget > 0
              /\ serial => Quiescent

\* The raw handler, lines 204, 214-215: a MESSAGE_DELETE packet starts
\* this.channels.fetch and suspends.
RawPacket(m) ==
  /\ rawPc[m] = "none"
  /\ \/ /\ Announced(m)
        /\ UNCHANGED <<msg, budget>>
     \/ /\ NextMsg(m)
        /\ \E c \in BOOLEAN, g \in Guilds :
             msg' = [msg EXCEPT ![m] = [announced |-> TRUE, cached |-> c, guildId |-> g]]
        /\ budget' = budget - 1
  /\ rawPc' = [rawPc EXCEPT ![m] = "fetch"]
  /\ UNCHANGED <<messageDeleteTimer, timeouts, waited, delPc, synPc, emitAge,
                 cancelledBy, sent, serial>>
  /\ UNCHANGED <<loaderVars, optVars, pitVars>>

\* The raw handler, lines 216-221, after the channel fetch resolved.
RawResume(m) ==
  /\ rawPc[m] = "fetch"
  /\ IF ~Truthy(messageDeleteTimer)
     THEN /\ messageDeleteTimer' = TimeoutOf(m)
          /\ timeouts' = setTimeout(timeouts, m, Window)
     ELSE /\ messageDeleteTimer' = Null
          /\ UNCHANGED timeouts
  /\ rawPc' = [rawPc EXCEPT ![m] = "done"]
  /\ UNCHANGED <<msg, waited, delPc, synPc, emitAge, cancelledBy, sent, budget, serial>>
  /\ UNCHANGED <<loaderVars, optVars, pitVars>>

\* messageDelete called with the cached message, lines 136-147: the
\* prologue, then (message.partial is false) the log channel fetch.
StructDelete(m) ==
  /\ delPc[m] = "none"
  /\ \/ /\ Announced(m) /\ msg[m].cached
        /\ UNCHANGED <<msg, budget>>
     \/ /\ NextMsg(m)
        /\ \E g \in Guilds :
             msg' = [msg EXCEPT ![m] = [announced |-> TRUE, cached |-> TRUE, guildId |-> g]]
        /\ budget' = budget - 1
  /\ messageDeleteEnter(timeouts, [chan |-> "structured", id |-> m])
  /\ delPc' = [delPc EXCEPT ![m] = "fetchLog"]
  /\ UNCHANGED <<waited, rawPc, synPc, emitAge, sent, serial>>
  /\ UNCHANGED <<loaderVars, optVars, pitVars>>

\* The timeout callback, lines 217-219: emit('messageDelete', {id, channel,
\* channelId, guildId}) runs messageDelete's prologue at once; the
\* synthesized object has no `partial`, so the log channel fetch is next.
TimerFire(m) ==
  /\ \E t \in timeouts :
       /\ t.id = m
       /\ TimerDue(t)
       /\ emitAge' = [emitAge EXCEPT ![m] = t.age]
  /\ messageDeleteEnter({t \in timeouts : t.id # m}, [chan |-> "synthesized", id |-> m])
  /\ synPc' = [synPc EXCEPT ![m] = "fetchLog"]
  /\ UNCHANGED <<msg, waited, rawPc, delPc, sent, budget, serial>>
  /\ UNCHANGED <<loaderVars, optVars, pitVars>>

\* messageDelete, lines 148-201, after the log channel fetch resolved: the
\* guild check, then logChannel.send of the 'Message Deleted' embed.
LogEntry(m, chan) == [id |-> m, from |-> chan]

messageDeleteSend(m, chan) ==
  IF msg[m].guildId # LogGuild THEN sent ELSE sent \cup {LogEntry(m, chan)}

StructResume(m) ==
  /\ delPc[m] = "fetchLog"
  /\ sent' = messageDeleteSend(m, "structured")
  /\ delPc' = [delPc EXCEPT ![m] = "done"]
  /\ UNCHANGED <<messageDeleteTimer, timeouts, msg, waited, rawPc, synPc,
                 emitAge, cancelledBy, budget, serial>>
  /\ UNCHANGED <<loaderVars, optVars, pitVars>>

SynthResume(m) ==
  /\ synPc[m] = "fetchLog"
  /\ sent' = messageDeleteSend(m, "synthesized")
  /\ synPc' = [synPc EXCEPT ![m] = "done"]
  /\ UNCHANGED <<messageDeleteTimer, timeouts, msg, waited, rawPc, delPc,
                 emitAge, cancelledBy, budget, serial>>
  /\ UNCHANGED <<loaderVars, optVars, pitVars>>

\* A cached message whose second notification is still to come.
HalfAnnounced(m) ==
  Announced(m) /\ msg[m].cached /\ (rawPc[m] = "none" \/ delPc[m] = "none")

\* Time passes: TickMs more since every scheduled timeout was set and since
\* the first notification of every half-announced message.  Passing time is
\* observable only while some timeout is still to become due.
Tick ==
  /\ \E t \in timeouts : ~TimerDue(t)
  /\ \A m \in Msgs : HalfAnnounced(m) => waited[m] + TickMs <= MaxSkew
  /\ timeouts' = {[t EXCEPT !.age = @ + TickMs] : t \in timeouts}
  /\ waited' = [m \in Msgs |-> IF HalfAnnounced(m) THEN waited[m] + TickMs ELSE waited[m]]
  /\ UNCHANGED <<messageDeleteTimer, msg, rawPc, delPc, synPc, emitAge,
                 cancelledBy, sent, budget, serial>>
  /\ UNCHANGED <<loaderVars, optVars, pitVars>>

(***************************************************************************)
(* The loader: Application.safeImport, importJSON and toModulePath, and    *)
(* the reload command that drives them (src/events/shutdown.mjs).          *)
(***************************************************************************)
Calls == 1..MaxCalls

\* File names a caller passes.  path.resolve makes "ev.mjs" and "./ev.mjs"
\* the same absolute path under the bot's working directory.
Filenames == {"ev.mjs", "./ev.mjs", "cmd.mjs"}

resolve(filename) ==
  CASE filename = "ev.mjs" -> "/app/ev.mjs"
    [] filename = "./ev.mjs" -> "/app/ev.mjs"
    [] filename = "cmd.mjs" -> "/app/cmd.mjs"

Paths == {resolve(f) : f \in Filenames}

\* What a file on disk can be: a well-formed unit, a module that imports but
\* lacks its exports, a module whose import throws, or no accessible file.
Statuses == {"ok", "malformed", "broken", "missing"}

\* The `options` argument of safeImport: an object that may own a `reload`
\* property and a `with` property, or no object at all (null).
OptEmpty == [kind |-> "object", reload |-> "absent", json |-> FALSE]
OptReload(b) == [kind |-> "object", reload |-> b, json |-> FALSE]
OptJson == [kind |-> "object", reload |-> "absent", json |-> TRUE]
OptNull == [kind |-> "null", reload |-> "absent", json |-> FALSE]
OptionValues == {OptEmpty, OptReload("true"), OptReload("false"), OptJson, OptNull}

\* `'reload' in options` (line 187) throws a TypeError unless options is an
\* object.
InThrows(o) == o.kind # "object"

\* Lines 186-191: the suffix appended to the locator.
NoAppend == [q |-> "", t |-> 0]
appendOf(o, t) ==
  IF o.reload = "true" THEN [q |-> "?t=", t |-> t] ELSE NoAppend

\* toModulePath, lines 207-209: "file:" + path.resolve(filename) + append.
toModulePath(filename, append) ==
  [scheme |-> "file:", path |-> resolve(filename), append |-> append]

NoLoc == [scheme |-> "", path |-> "", append |-> NoAppend]
NoMod == [ver |-> -1, shape |-> "none"]

\* The host's import(): a locator already in the module cache answers with
\* the cached module; otherwise the file is evaluated as it is on disk now.
Cached(loc) == \E e \in moduleCache : e.loc = loc
CachedMod(loc) == (CHOOSE e \in moduleCache : e.loc = loc).mod
ImportFails(loc) ==
  ~Cached(loc) /\ files[loc.path].status \in {"broken", "missing"}
ImportedMod(loc) ==
  IF Cached(loc) THEN CachedMod(loc)
  ELSE [ver |-> files[loc.path].ver, shape |-> files[loc.path].status]

IdleCall ==
  [kind |-> "none", pc |-> "idle", file |-> "", opts |-> OptEmpty, loc |-> NoLoc,
   outcome |-> "pending", mod |-> NoMod, errs |-> 0, attempted |-> FALSE,
   ok |-> "none", replies |-> <<>>]

\* Calls are numbered in the order they start.
CanStart(c) ==
  /\ calls[c].pc = "idle"
  /\ \A k \in Calls : k < c => calls[k].pc # "idle"

\* safeImport(filename, options), lines 177-179: fs.access is started.
CallSafeImport(c, f, o) ==
  /\ CanStart(c)
  /\ calls' = [calls EXCEPT ![c] =
                 [IdleCall EXCEPT !.kind = "safeImport", !.pc = "access",
                                  !.file = f, !.opts = o]]
  /\ UNCHANGED <<clock, files, moduleCache, loads, installed>>
  /\ UNCHANGED <<delVars, optVars, pitVars>>

\* importJSON(filename), lines 170-172: safeImport(filename, {with: {type: 'json'}}).
CallImportJSON(c, f) ==
  /\ CanStart(c)
  /\ calls' = [calls EXCEPT ![c] =
                 [IdleCall EXCEPT !.kind = "importJSON", !.pc = "access",
                                  !.file = f, !.opts = OptJson]]
  /\ UNCHANGED <<clock, files, moduleCache, loads, installed>>
  /\ UNCHANGED <<delVars, optVars, pitVars>>

\* The reload command's subcommands (definition, lines 26-57).
Subcommands == {"event", "slash"}

\* The reload handler, lines 11-24, up to its first await.  'event' calls
\* registerEventHandlerFile(file, 'reload'), which loads the file afresh
\* with safeImport(file, {reload: true}); 'slash' replies at once.
handler(sub, f) ==
  IF sub = "event"
  THEN [IdleCall EXCEPT !.kind = "reloadEvent", !.pc = "access", !.file = f,
                        !.opts = OptReload("true"), !.attempted = TRUE]
  ELSE [IdleCall EXCEPT !.kind = "reloadSlash", !.pc = "done", !.file = f,
                        !.replies = <<"Doesn't work yet.">>]

ReloadCommand(c, sub, f) ==
  /\ CanStart(c)
  /\ calls' = [calls EXCEPT ![c] = handler(sub, f)]
  /\ UNCHANGED <<clock, files, moduleCache, loads, installed>>
  /\ UNCHANGED <<delVars, optVars, pitVars>>

\* registerEventHandlerFile's answer for what safeImport returned: the unit
\* is installed and TRUE returned when the module loaded and has its exports;
\* any failure leaves the registry as it was and returns FALSE.
registerEventHandlerFile(outcome, mod) == outcome = "module" /\ mod.shape = "ok"

\* A slip: the answer of registerEventHandlerFile is not looked at.
handlerReply_AlwaysReloaded(ok) == "Reloaded."

\* The reload handler, lines 15-18: the reply chosen from the answer.
handlerReply(ok) == IF ok THEN "Reloaded." ELSE "Could not reload."

\* safeImport returned (or threw) in call c: what its caller does with it.
\* importJSON takes ?.default of the result; the reload handler replies
\* unless the await threw.
Returned(c, outcome, mod, logged) ==
  LET call == [calls[c] EXCEPT !.pc = "done", !.outcome = outcome, !.mod = mod,
                               !.errs = @ + logged]
      ok == registerEventHandlerFile(outcome, mod)
  IN  IF call.kind = "reloadEvent" /\ outcome # "throws"
      THEN /\ calls' = [calls EXCEPT ![c] =
                          [call EXCEPT !.ok = IF ok THEN "true" ELSE "false",
                                       !.replies = Append(@, handlerReply(ok))]]
           /\ installed' = IF ok THEN [installed EXCEPT ![call.loc.path] = mod.ver]
                                 ELSE installed
      ELSE /\ calls' = [calls EXCEPT ![c] = call]
           /\ installed' = installed

\* safeImport, lines 178-196, from fs.access settling to the import() call.
\* An inaccessible file is logged and undefined returned; otherwise the
\* suffix is computed (`in` throws on a non-object), and import is started.
AccessSettles(c) ==
  /\ calls[c].pc = "access"
  /\ LET call == calls[c]
         loc == toModulePath(call.file, appendOf(call.opts, clock))
     IN  IF files[resolve(call.file)].status = "missing"
         THEN /\ Returned(c, "undefined", NoMod, 1)
              /\ loads' = loads
         ELSE IF InThrows(call.opts)
         THEN /\ Returned(c, "throws", NoMod, 0)
              /\ loads' = loads
         ELSE /\ calls' = [calls EXCEPT ![c] = [call EXCEPT !.pc = "import", !.loc = loc]]
              /\ loads' = Append(loads, [call |-> c, loc |-> loc,
                                         fresh |-> call.opts.reload = "true"])
              /\ installed' = installed
  /\ UNCHANGED <<clock, files, moduleCache>>
  /\ UNCHANGED <<delVars, optVars, pitVars>>

\* safeImport, lines 196-201: import() settles.  A failure is logged and
\* undefined returned; a success returns the module.
ImportSettles(c) ==
  /\ calls[c].pc = "import"
  /\ LET loc == calls[c].loc
     IN  IF ImportFails(loc)
         THEN /\ Returned(c, "undefined", NoMod, 1)
              /\ moduleCache' = moduleCache
         ELSE /\ Returned(c, "module", ImportedMod(loc), 0)
              /\ moduleCache' = moduleCache \cup {[loc |-> loc, mod |-> ImportedMod(loc)]}
  /\ UNCHANGED <<clock, files, loads>>
  /\ UNCHANGED <<delVars, optVars, pitVars>>

\* The environment: somebody edits, breaks, removes or restores a file.
Edits == LET Sum[P \in SUBSET Paths] ==
               IF P = {} THEN 0
               ELSE LET p == CHOOSE q \in P : TRUE IN files[p].ver + Sum[P \ {p}]
         IN  Sum[Paths]

EditFile(p, st) ==
  /\ Edits < MaxEdits
  /\ files' = [files EXCEPT ![p] = [status |-> st, ver |-> @.ver + 1]]
  /\ UNCHANGED <<clock, moduleCache, calls, loads, installed>>
  /\ UNCHANGED <<delVars, optVars, pitVars>>

\* The clock reaches its next millisecond.
ClockTick ==
  /\ clock < MaxClock
  /\ clock' = clock + 1
  /\ UNCHANGED <<files, moduleCache, calls, loads, installed>>
  /\ UNCHANGED <<delVars, optVars, pitVars>>

\* At start every file is a well-formed unit, nothing is loaded or installed.
LoaderInit ==
  /\ clock = 0
  /\ files = [p \in Paths |-> [status |-> "ok", ver |-> 0]]
  /\ moduleCache = {}
  /\ calls = [c \in Calls |-> IdleCall]
  /\ loads = <<>>
  /\ installed = [p \in Paths |-> -1]

\* The loader at rest: nothing is ever called.
LoaderIdle ==
  /\ clock = 0
  /\ files = [p \in Paths |-> [status |-> "ok", ver |-> 0]]
  /\ moduleCache = {}
  /\ calls = [c \in Calls |-> [IdleCall EXCEPT !.pc = "off"]]
  /\ loads = <<>>
  /\ installed = [p \in Paths |-> -1]

LoaderNext ==
  \/ \E c \in Calls, f \in Filenames, o \in OptionValues : CallSafeImport(c, f, o)
  \/ \E c \in Calls, f \in Filenames : CallImportJSON(c, f)
  \/ \E c \in Calls, sub \in Subcommands, f \in Filenames : ReloadCommand(c, sub, f)
  \/ \E c \in Calls : AccessSettles(c)
  \/ \E c \in Calls : ImportSettles(c)
  \/ \E p \in Paths, st \in Statuses : EditFile(p, st)
  \/ ClockTick


(***************************************************************************)
(* Application.loadOptions, lines 77-101.                                  *)
(***************************************************************************)
\* Command-line arguments: the empty string, two spellings of one flag, a
\* plain word, and the name loadOptions itself uses as a key.
Args == {"", "-v", "--verbose", "on", "_last"}

\* JavaScript values stored in Application.options: a string or an array.
Str(x) == [t |-> "string", s |-> x, a |-> <<>>]
Arr(xs) == [t |-> "array", s |-> "", a |-> xs]

\* Application.options = {} (line 69): an object with no own keys.
EmptyObject == [k \in {} |-> Str("")]
Has(o, k) == k \in DOMAIN o
Put(o, k, v) == [x \in DOMAIN o \cup {k} |-> IF x = k THEN v ELSE o[x]]

\* The local `flag` (line 78): undefined or null, or a string.
NoFlag == [set |-> FALSE, v |-> ""]
Flag(x) == [set |-> TRUE, v |-> x]
\* `!flag`: undefined, null and the empty string are falsy.
NotFlag(f) == ~f.set \/ f.v = ""
\* `!this.options[flag]`: a missing key and an empty string are falsy, an
\* array (even an empty one) is truthy.
NotValue(o, k) == ~Has(o, k) \/ (o[k].t = "string" /\ o[k].s = "")

\* Lines 81-84: every base flag of `aliases`, in key order, may rewrite arg;
\* the loop does not stop at the first match.
RECURSIVE applyAliases(_, _, _)
applyAliases(arg, al, i) ==
  IF i > Len(al) THEN arg
  ELSE applyAliases(IF arg \in al[i].alts THEN al[i].base ELSE arg, al, i + 1)

\* Lines 88-95: the value is stored under the flag.  Within one call a flag
\* of `multiples` holds an array whenever it holds anything.
storeOption(o, flag, arg, mult) ==
  IF flag \in mult
  THEN IF NotValue(o, flag) THEN Put(o, flag, Arr(<<arg>>))
       ELSE Put(o, flag, Arr(Append(o[flag].a, arg)))
  ELSE Put(o, flag, Str(arg))

\* One iteration of the loop, lines 79-98.
loadStep(st, arg, mult, al) ==
  IF NotFlag(st.flag)
  THEN [opts |-> st.opts, flag |-> Flag(applyAliases(arg, al, 1)),
        roles |-> Append(st.roles, "flag"), stores |-> st.stores]
  ELSE [opts |-> storeOption(st.opts, st.flag.v, arg, mult), flag |-> NoFlag,
        roles |-> Append(st.roles, "value"),
        stores |-> Append(st.stores, [at |-> Len(st.roles) + 1, key |-> st.flag.v,
                                      val |-> arg])]

RECURSIVE loadLoop(_, _, _, _, _)
loadLoop(st, args, i, mult, al) ==
  IF i > Len(args) THEN st
  ELSE loadLoop(loadStep(st, args[i], mult, al), args, i + 1, mult, al)

\* loadOptions({multiples, aliases}), lines 77-101.
loadOptions(o, args, mult, al) ==
  LET st == loadLoop([opts |-> o, flag |-> NoFlag, roles |-> <<>>, stores |-> <<>>],
                     args, 1, mult, al)
  IN  [opts |-> IF ~NotFlag(st.flag) THEN Put(st.opts, "_last", Str(st.flag.v))
                ELSE st.opts,
       roles |-> st.roles,
       stores |-> st.stores]

LoadOptions ==
  /\ optPc = "start"
  /\ options' = loadOptions(options, argv, multiples, aliases).opts
  /\ roles' = loadOptions(options, argv, multiples, aliases).roles
  /\ stores' = loadOptions(options, argv, multiples, aliases).stores
  /\ optPc' = "done"
  /\ UNCHANGED <<argv, multiples, aliases>>
  /\ UNCHANGED <<delVars, loaderVars, pitVars>>

ArgLists == UNION {[1..n -> Args] : n \in 0..MaxArgs}

\* How the caller may configure loadOptions.
MultiplesChoices == {{}, {"--verbose"}}
AliasChoices ==
  {<<>>,
   <<[base |-> "--verbose", alts |-> {"-v"}]>>,
   <<[base |-> "--verbose", alts |-> {"-v"}], [base |-> "on", alts |-> {"--verbose"}]>>}

OptInit ==
  /\ argv \in ArgLists
  /\ multiples \in MultiplesChoices
  /\ aliases \in AliasChoices
  /\ options = EmptyObject
  /\ roles = <<>>
  /\ stores = <<>>
  /\ optPc = "start"

\* loadOptions is never called.
OptIdle ==
  /\ argv = <<>>
  /\ multiples = {}
  /\ aliases = <<>>
  /\ options = EmptyObject
  /\ roles = <<>>
  /\ stores = <<>>
  /\ optPc = "off"


(***************************************************************************)
(* pit(user, duration, mod=null, comment=null), part_000 lines 134-165.    *)
(* A database call takes effect when its promise settles.  updateRole and  *)
(* the message templates are calls into other modules: the model records   *)
(* that they were called.  user.send may reject (the user's DMs are        *)
(* closed); Date.now() is the clock the loader reads.                      *)
(***************************************************************************)
PitCallIds == 1..MaxPitCalls

\* The `user` argument: a discord.js User, or nothing (null, undefined).
NoUser == "none"
Users == {"u1", "u2"}
\* pit is called for one of them; the other has rows in the table.
Pitted == {"u1"}
\* The `mod` argument: the moderator, or null (the default).
NoModerator == "none"
Moderators == {"mod1"}

\* The `duration` argument: a number, or a value Number() maps to NaN.
NaN == [nan |-> TRUE, n |-> 0]
Num(k) == [nan |-> FALSE, n |-> k]
Durations == {NaN} \cup {Num(k) : k \in -1..MaxDuration}
isNaN(d) == d.nan

\* A slip: a duration of zero is let through.
invalidDuration_ZeroAllowed(d) == isNaN(d) \/ d.n < 0

\* Line 141: isNaN(duration) || duration <= 0.
invalidDuration(d) == isNaN(d) \/ d.n <= 0

\* A row of the pits table (line 152); mod?.id??null is NoModerator for a
\* call without a moderator.
PitRow(userId, modId, duration, date) ==
  [userId |-> userId, modId |-> modId, duration |-> duration, date |-> date]

releaseTime(row) == row.date + row.duration

\* Line 146: SELECT *,date+duration AS releaseTime FROM pits WHERE userId=?
\* ORDER BY releaseTime DESC LIMIT 1.  No row gives undefined.
NoRow == [found |-> FALSE, releaseTime |-> 0]
get(table, userId) ==
  LET mine == {i \in DOMAIN table : table[i].userId = userId}
  IN  IF mine = {} THEN NoRow
      ELSE [found |-> TRUE,
            releaseTime |-> CHOOSE r \in {releaseTime(table[i]) : i \in mine} :
                              \A i \in mine : releaseTime(table[i]) <= r]

\* A slip: the release time is not looked at.
selfPitBlocked_Never(timeout, now) == FALSE

\* Line 147: timeout?.releaseTime > Date.now(); undefined > n is false.
selfPitBlocked(timeout, now) == timeout.found /\ timeout.releaseTime > now

\* The calls pit makes that act on the world, each at most once per call.
PitEffects == {"get", "fetch", "insert", "updateRole", "userSend", "logSend"}

IdlePit ==
  [pc |-> "idle", user |-> NoUser, duration |-> NaN, mod |-> NoModerator,
   result |-> "pending", error |-> "", date |-> 0,
   notifSent |-> FALSE, effects |-> {}]

\* Calls are numbered in the order they start.
CanStartPit(c) ==
  /\ pitCalls[c].pc = "idle"
  /\ \A k \in PitCallIds : k < c => pitCalls[k].pc # "idle"
  /\ pitSerial => \A k \in PitCallIds : pitCalls[k].pc \in {"idle", "done"}

\* Lines 134-151, up to the first await: the validation, then the database
\* read for a call without a moderator, the log channel fetch otherwise.
pitEnter(u, d, m) ==
  LET call == [IdlePit EXCEPT !.user = u, !.duration = d, !.mod = m]
  IN  IF u = NoUser
      THEN [call EXCEPT !.pc = "done", !.result = "throws", !.error = "Invalid user."]
      ELSE IF invalidDuration(d)
      THEN [call EXCEPT !.pc = "done", !.result = "throws",
                        !.error = "Invalid duration. Must be a number greater than 0."]
      ELSE IF m = NoModerator
      THEN [call EXCEPT !.pc = "read", !.effects = {"get"}]
      ELSE [call EXCEPT !.pc = "fetch", !.effects = {"fetch"}]

PitCall(c, u, d, m) ==
  /\ CanStartPit(c)
  /\ pitCalls' = [pitCalls EXCEPT ![c] = pitEnter(u, d, m)]
  /\ UNCHANGED <<pits, pitSerial>>
  /\ UNCHANGED <<delVars, loaderVars, optVars>>

\* Lines 146-151: the read settles; an unexpired timeout returns false,
\* otherwise the log channel fetch is started.
PitReadSettles(c) ==
  /\ pitCalls[c].pc = "read"
  /\ LET call == pitCalls[c]
         timeout == get(pits, call.user)
     IN  pitCalls' = [pitCalls EXCEPT ![c] =
           IF selfPitBlocked(timeout, clock)
           THEN [call EXCEPT !.pc = "done", !.result = "false"]
           ELSE [call EXCEPT !.pc = "fetch", !.effects = @ \cup {"fetch"}]]
  /\ UNCHANGED <<pits, pitSerial>>
  /\ UNCHANGED <<delVars, loaderVars, optVars>>

\* Lines 151-152: the log channel is fetched; the INSERT is started with
\* date = Date.now().
PitFetchSettles(c) ==
  /\ pitCalls[c].pc = "fetch"
  /\ pitCalls' = [pitCalls EXCEPT ![c] =
                    [@ EXCEPT !.pc = "insert", !.date = clock,
                              !.effects = @ \cup {"insert"}]]
  /\ UNCHANGED <<pits, pitSerial>>
  /\ UNCHANGED <<delVars, loaderVars, optVars>>

\* Lines 152-153: the row is in the table; updateRole(user.id, 'pit') is
\* called.
PitInsertSettles(c) ==
  /\ pitCalls[c].pc = "insert"
  /\ pits' = Append(pits, PitRow(pitCalls[c].user, pitCalls[c].mod,
                                 pitCalls[c].duration.n, pitCalls[c].date))
  /\ pitCalls' = [pitCalls EXCEPT ![c] =
                    [@ EXCEPT !.pc = "role", !.effects = @ \cup {"updateRole"}]]
  /\ UNCHANGED pitSerial
  /\ UNCHANGED <<delVars, loaderVars, optVars>>

\* Lines 153-157: the role is updated; the notification is sent to the user.
PitRoleSettles(c) ==
  /\ pitCalls[c].pc = "role"
  /\ pitCalls' = [pitCalls EXCEPT ![c] =
                    [@ EXCEPT !.pc = "dm", !.effects = @ \cup {"userSend"}]]
  /\ UNCHANGED <<pits, pitSerial>>
  /\ UNCHANGED <<delVars, loaderVars, optVars>>

\* Lines 157-163: user.send resolved (delivered) or rejected (caught and
\* logged); the confirmation is sent to the log channel.
PitDmSettles(c, delivered) ==
  /\ pitCalls[c].pc = "dm"
  /\ pitCalls' = [pitCalls EXCEPT ![c] =
                    [@ EXCEPT !.pc = "log", !.notifSent = delivered,
                              !.effects = @ \cup {"logSend"}]]
  /\ UNCHANGED <<pits, pitSerial>>
  /\ UNCHANGED <<delVars, loaderVars, optVars>>

\* Lines 163-164: the confirmation is sent; pit returns true.
PitLogSettles(c) ==
  /\ pitCalls[c].pc = "log"
  /\ pitCalls' = [pitCalls EXCEPT ![c] = [@ EXCEPT !.pc = "done", !.result = "true"]]
  /\ UNCHANGED <<pits, pitSerial>>
  /\ UNCHANGED <<delVars, loaderVars, optVars>>

\* The pits table persists between runs of the bot: at start it is empty or
\* holds a timeout a user gave themself at time 0.
InitialTables == {<<>>} \cup {<<PitRow(u, NoModerator, MaxDuration, 0)>> : u \in Users}

PitInit(oneAtATime) ==
  /\ pits \in InitialTables
  /\ pitCalls = [c \in PitCallIds |-> IdlePit]
  /\ pitSerial = oneAtATime

\* pit is never called.
PitIdle ==
  /\ pits = <<>>
  /\ pitCalls = [c \in PitCallIds |-> [IdlePit EXCEPT !.pc = "off"]]
  /\ pitSerial = TRUE

PitNext ==
  \/ \E c \in PitCallIds, u \in Pitted \cup {NoUser}, d \in Durations,
        m \in Moderators \cup {NoModerator} : PitCall(c, u, d, m)
  \/ \E c \in PitCallIds : PitReadSettles(c)
  \/ \E c \in PitCallIds : PitFetchSettles(c)
  \/ \E c \in PitCallIds : PitInsertSettles(c)
  \/ \E c \in PitCallIds : PitRoleSettles(c)
  \/ \E c \in PitCallIds, delivered \in BOOLEAN : PitDmSettles(c, delivered)
  \/ \E c \in PitCallIds : PitLogSettles(c)
  \/ ClockTick


DeleteInit(n, oneAtATime) ==
  /\ messageDeleteTimer = Undefined
  /\ timeouts = {}
  /\ msg = [m \in Msgs |-> [announced |-> FALSE, cached |-> FALSE, guildId |-> "home"]]
  /\ waited = [m \in Msgs |-> 0]
  /\ rawPc = [m \in Msgs |-> "none"]
  /\ delPc = [m \in Msgs |-> "none"]
  /\ synPc = [m \in Msgs |-> "none"]
  /\ emitAge = [m \in Msgs |-> -1]
  /\ cancelledBy = [m \in Msgs |-> NoOne]
  /\ sent = {}
  /\ budget = n
  /\ serial = oneAtATime

DeleteNext ==
  \/ \E m \in Msgs : RawPacket(m)
  \/ \E m \in Msgs : RawResume(m)
  \/ \E m \in Msgs : StructDelete(m)
  \/ \E m \in Msgs : TimerFire(m)
  \/ \E m \in Msgs : StructResume(m)
  \/ \E m \in Msgs : SynthResume(m)
  \/ Tick

\* Deletions up to the bound, their notifications interleaved in any order.
Init == DeleteInit(MaxDeletions, FALSE) /\ LoaderIdle /\ OptIdle /\ PitIdle
Spec == Init /\ [][DeleteNext]_vars

\* Deletions up to the bound, one at a time: a deletion is announced only
\* when every earlier one has been handled to the end.
InitSerial == DeleteInit(MaxDeletions, TRUE) /\ LoaderIdle /\ OptIdle /\ PitIdle
SpecSerial == InitSerial /\ [][DeleteNext]_vars

\* Calls of safeImport, importJSON and the reload command, interleaved with
\* edits of the files and the passing of time.
InitLoader == DeleteInit(0, TRUE) /\ LoaderInit /\ OptIdle /\ PitIdle
SpecLoader == InitLoader /\ [][LoaderNext]_vars

\* Invocations of the reload command only, interleaved with edits of the
\* files and the passing of time.
ReloadNext ==
  \/ \E c \in Calls, sub \in Subcommands, f \in Filenames : ReloadCommand(c, sub, f)
  \/ \E c \in Calls : AccessSettles(c)
  \/ \E c \in Calls : ImportSettles(c)
  \/ \E p \in Paths, st \in Statuses : EditFile(p, st)
  \/ ClockTick

SpecReload == InitLoader /\ [][ReloadNext]_vars

\* Calls of pit, interleaved at their awaits, while time passes.
InitPit == DeleteInit(0, TRUE) /\ LoaderIdle /\ OptIdle /\ PitInit(FALSE)
SpecPit == InitPit /\ [][PitNext]_vars

\* Calls of pit one at a time: each is made when the one before returned.
InitPitSerial == DeleteInit(0, TRUE) /\ LoaderIdle /\ OptIdle /\ PitInit(TRUE)
SpecPitSerial == InitPitSerial /\ [][PitNext]_vars

\* One call of loadOptions on any command line up to the bound.
InitOptions == DeleteInit(0, TRUE) /\ LoaderIdle /\ OptInit /\ PitIdle
SpecOptions == InitOptions /\ [][LoadOptions]_vars

(***************************************************************************)
(* Claims about the deletion logger.                                       *)
(***************************************************************************)
LogsOf(m) == {e \in sent : e.id = m}

\* C1 as stated: once every notification of a deletion announced on both
\* channels (a cached message), one deletion at a time, has been handled,
\* exactly one 'Message Deleted' log was sent for it, the one built from the
\* structured event's message, and no synthesized messageDelete was emitted.
C1_OneStructuredLog ==
  \A m \in Msgs :
    (Announced(m) /\ msg[m].cached /\ Handled(m)) =>
      /\ LogsOf(m) = {LogEntry(m, "structured")}
      /\ synPc[m] = "none"

\* C1 amended: the same for a message of the log channel's guild; for a
\* message of another guild the one messageDelete call is still the
\* structured one, it returns at the guild check and no log is sent.  At no
\* point of the deletion is a synthesized messageDelete emitted or logged.
C1_OneStructuredLogInLogGuild ==
  \A m \in Msgs :
    (Announced(m) /\ msg[m].cached) =>
      /\ synPc[m] = "none"
      /\ LogEntry(m, "synthesized") \notin sent
      /\ Handled(m) =>
           LogsOf(m) = IF msg[m].guildId = LogGuild
                       THEN {LogEntry(m, "structured")} ELSE {}

\* C1's case: a cached message of the log guild whose raw handler armed the
\* timeout, whose structured event then cleared it, and which is handled.
C1_Witness ==
  \E m \in Msgs :
    /\ Announced(m) /\ msg[m].cached /\ msg[m].guildId = LogGuild
    /\ Handled(m)
    /\ cancelledBy[m] = [chan |-> "structured", id |-> m]
    /\ LogsOf(m) = {LogEntry(m, "structured")}

\* C2 as stated: once a deletion announced by the raw packet only (an
\* uncached message), one deletion at a time, has been handled, exactly one
\* synthesized messageDelete was emitted, no earlier than Window ms after
\* setTimeout, and it was logged (and nothing else was logged for it).
C2_OneSynthesizedLog ==
  \A m \in Msgs :
    (Announced(m) /\ ~msg[m].cached /\ Handled(m)) =>
      /\ synPc[m] = "done"
      /\ emitAge[m] >= Window
      /\ LogsOf(m) = {LogEntry(m, "synthesized")}

\* C2 amended: the synthesized messageDelete is emitted exactly once and no
\* earlier than Window ms after setTimeout for every such deletion; it is
\* logged when the message is of the log channel's guild, and returns at the
\* guild check without a log otherwise.  No emit happens before the delay.
C2_OneSynthesizedEmit ==
  \A m \in Msgs :
    (Announced(m) /\ ~msg[m].cached) =>
      /\ delPc[m] = "none"
      /\ synPc[m] # "none" => emitAge[m] >= Window
      /\ Handled(m) =>
           /\ synPc[m] = "done"
           /\ LogsOf(m) = IF msg[m].guildId = LogGuild
                          THEN {LogEntry(m, "synthesized")} ELSE {}

\* C2's case: an uncached message of the log guild, handled, its synthesized
\* messageDelete emitted by the timeout and logged.
C2_Witness ==
  \E m \in Msgs :
    /\ Announced(m) /\ ~msg[m].cached /\ msg[m].guildId = LogGuild
    /\ Handled(m)
    /\ emitAge[m] >= Window
    /\ LogsOf(m) = {LogEntry(m, "synthesized")}

\* C3: with the notifications of several deletions interleaved, once no
\* deletion is in flight every deleted message of the log guild has exactly
\* one 'Message Deleted' log: not two, not none.
C3_ExactlyOneLogEach ==
  Quiescent =>
    \A m \in Msgs :
      (Announced(m) /\ msg[m].guildId = LogGuild) => Cardinality(LogsOf(m)) = 1

\* C4: the timeout armed for message M is cleared only by the structured
\* messageDelete of M itself, never by a notification of another message,
\* and it is cleared whenever that event comes before it fires: no message
\* whose structured event was emitted has its timeout still scheduled or
\* fired.
C4_OnlyOwnStructuredCancels ==
  \A m \in Msgs :
    /\ cancelledBy[m] \in {NoOne, [chan |-> "structured", id |-> m]}
    /\ ~(delPc[m] # "none" /\ (Pending(m) \/ synPc[m] # "none"))

\* C13: whenever no deletion is in flight (every notification received so
\* far has been handled and no timeout is scheduled), messageDeleteTimer is
\* falsy, whatever deletions came before and whatever their guilds.
C13_IdleFlagFalsy ==
  Quiescent => ~Truthy(messageDeleteTimer)

\* C14: at most one deletion timeout is scheduled, and while one is
\* scheduled messageDeleteTimer holds its handle: the flag is not
\* overwritten or reset to null before that timeout fired or was cleared.
C14_FlagOwnsPendingTimeout ==
  /\ Cardinality(timeouts) <= 1
  /\ \A t \in timeouts : messageDeleteTimer = TimeoutOf(t.id)

(***************************************************************************)
(* Claims about the loader and the reload command.                         *)
(***************************************************************************)
Finished(c) == calls[c].pc = "done"

\* C5: no call of safeImport or importJSON ends in an exception that
\* reaches the caller, whatever the file name and the options value: it
\* returns the module, or it logs one error and returns undefined.
C5_SafeImportNeverThrows ==
  \A c \in Calls :
    (Finished(c) /\ calls[c].kind \in {"safeImport", "importJSON"}) =>
      /\ calls[c].outcome \in {"module", "undefined"}
      /\ calls[c].outcome = "undefined" <=> calls[c].errs = 1

\* C6: a load with reload set to true gets a locator that no earlier load
\* of the same file was given.
C6_FreshLocatorIsNew ==
  \A i, j \in DOMAIN loads :
    (i < j /\ loads[j].fresh /\ loads[i].loc.path = loads[j].loc.path) =>
      loads[i].loc # loads[j].loc

\* C7: an invocation of the reload command with subcommand 'event' has sent
\* no reply while registerEventHandlerFile is pending and exactly one reply
\* once it answered: 'Reloaded.' if and only if the answer was success,
\* 'Could not reload.' if and only if it was failure.
C7_EventReloadAcknowledged ==
  \A c \in Calls :
    calls[c].kind = "reloadEvent" =>
      /\ ~Finished(c) => calls[c].replies = <<>>
      /\ Finished(c) =>
           /\ calls[c].ok \in {"true", "false"}
           /\ Len(calls[c].replies) = 1
           /\ calls[c].replies[1] = "Reloaded." <=> calls[c].ok = "true"
           /\ calls[c].replies[1] = "Could not reload." <=> calls[c].ok = "false"

\* C7's case: two 'event' invocations answered, one whose reload succeeded
\* and was acknowledged with 'Reloaded.', one whose reload failed and was
\* acknowledged with 'Could not reload.'.
C7_Witness ==
  \E c, d \in Calls :
    /\ calls[c].kind = "reloadEvent" /\ Finished(c)
    /\ calls[c].ok = "true" /\ calls[c].replies = <<"Reloaded.">>
    /\ calls[d].kind = "reloadEvent" /\ Finished(d)
    /\ calls[d].ok = "false" /\ calls[d].replies = <<"Could not reload.">>

\* C8: an invocation with either selector attempts a reload of the named
\* unit and replies with that attempt's success or failure.
C8_BothSelectorsReload ==
  \A c \in Calls :
    (Finished(c) /\ calls[c].kind \in {"reloadEvent", "reloadSlash"}) =>
      /\ calls[c].attempted
      /\ calls[c].ok \in {"true", "false"}
      /\ calls[c].replies = <<handlerReply(calls[c].ok = "true")>>

(***************************************************************************)
(* Claims about loadOptions.                                               *)
(***************************************************************************)
\* The arguments read by position: argv[i] for odd i (the 1st, 3rd, ...
\* argument) is a flag and argv[i+1] its value.
FlagAt(i) == applyAliases(argv[i], aliases, 1)

RECURSIVE ValuesFrom(_, _)
ValuesFrom(k, i) ==
  IF i + 1 > Len(argv) THEN <<>>
  ELSE (IF FlagAt(i) = k THEN <<argv[i + 1]>> ELSE <<>>) \o ValuesFrom(k, i + 2)

\* C9: loadOptions takes the arguments as flag, value, flag, value by
\* position, and with an odd number of arguments stores the last one, a
\* flag, under the key _last.
C9_StrictAlternation ==
  optPc = "done" =>
    /\ \A i \in DOMAIN argv : roles[i] = IF i % 2 = 1 THEN "flag" ELSE "value"
    /\ Len(argv) % 2 = 1 =>
         /\ Has(options, "_last")
         /\ options["_last"] = Str(FlagAt(Len(argv)))

\* C10: after loadOptions a flag of `multiples` holds the array of the
\* values of all its occurrences, in command-line order, and any other
\* flag holds the string that is the value of its last occurrence.
C10_ArrayOrLastValue ==
  optPc = "done" =>
    \A k \in Args \cup {al.base : al \in {aliases[i] : i \in DOMAIN aliases}} :
      LET vs == ValuesFrom(k, 1)
      IN  vs # <<>> =>
            /\ Has(options, k)
            /\ options[k] = IF k \in multiples THEN Arr(vs) ELSE Str(vs[Len(vs)])

\* The base flags whose alias list holds the argument a.
BasesOf(a) == {aliases[i].base : i \in {j \in DOMAIN aliases : a \in aliases[j].alts}}

Elems(xs) == {xs[i] : i \in DOMAIN xs}

\* C11: every value loadOptions stored was stored under the base flag whose
\* alias list holds the flag argument before it, or under that argument's
\* own name when no alias list holds it; the key holds an array exactly when
\* it is a flag of `multiples`; and the value stored is the argument as
\* given, not rewritten by aliases.
C11_AliasStoredUnderBase ==
  optPc = "done" =>
    \A n \in DOMAIN stores :
      LET st == stores[n]
          a == argv[st.at - 1]
      IN  /\ roles[st.at - 1] = "flag"
          /\ \A b \in BasesOf(a) : st.key = b
          /\ BasesOf(a) = {} => st.key = a
          /\ st.val = argv[st.at]
          /\ Has(options, st.key)
          /\ IF st.key \in multiples
             THEN options[st.key].t = "array" /\ st.val \in Elems(options[st.key].a)
             ELSE options[st.key].t = "string"

(***************************************************************************)
(* Claims about pit.                                                       *)
(***************************************************************************)
\* The user's most recent timeout (a row of the latest date) is unexpired:
\* its release time, date+duration, is later than now.
HasUnexpiredTimeout(u) ==
  \E i \in DOMAIN pits :
    /\ pits[i].userId = u
    /\ \A j \in DOMAIN pits : pits[j].userId = u => pits[j].date <= pits[i].date
    /\ releaseTime(pits[i]) > clock

\* What this call has done to the world besides reading the database.
Acted(c) == pitCalls[c].effects \ {"get"}

\* C12: when the database read of a call without a moderator settles while
\* the user's most recent timeout is unexpired, the call returns false and
\* leaves the table as it is; a call that returned false inserted no row,
\* updated no role and sent no message; and a call with a moderator never
\* reads the table for this check and never returns false.
C12_SelfPitRejectedStep(c) ==
  (/\ pitCalls[c].pc = "read"
   /\ pitCalls'[c].pc # "read"
   /\ HasUnexpiredTimeout(pitCalls[c].user)) =>
     /\ pitCalls'[c].pc = "done"
     /\ pitCalls'[c].result = "false"
     /\ pits' = pits

C12_RejectedHasNoEffect ==
  \A c \in PitCallIds :
    /\ pitCalls[c].result = "false" =>
         /\ pitCalls[c].mod = NoModerator
         /\ pitCalls[c].pc = "done"
         /\ Acted(c) = {}
    /\ pitCalls[c].mod # NoModerator =>
         /\ pitCalls[c].result # "false"
         /\ "get" \notin pitCalls[c].effects

C12_SelfPitRejected ==
  [][/\ \A c \in PitCallIds : C12_SelfPitRejectedStep(c)
     /\ C12_RejectedHasNoEffect']_vars

\* C12's case: a call without a moderator returned false for a user whose
\* timeout is unexpired, having done nothing but the read, and a call with
\* a moderator for the same user went through to the end.
C12_Witness ==
  \E c, d \in PitCallIds :
    /\ pitCalls[c].mod = NoModerator /\ pitCalls[c].result = "false"
    /\ pitCalls[c].effects = {"get"}
    /\ HasUnexpiredTimeout(pitCalls[c].user)
    /\ pitCalls[d].mod # NoModerator /\ pitCalls[d].user = pitCalls[c].user
    /\ pitCalls[d].result = "true"
    /\ Len(pits) = 2

\* The active interval of a row, from its date up to its release time, has
\* a moment in common with that of another row.
Overlap(r1, r2) == r1.date < releaseTime(r2) /\ r2.date < releaseTime(r1)

\* C15: however the calls of pit interleave at their awaits, the pits table
\* never holds two rows without a moderator for one user whose active
\* intervals overlap.
C15_NoOverlappingSelfPits ==
  \A i, j \in DOMAIN pits :
    (/\ i < j
     /\ pits[i].userId = pits[j].userId
     /\ pits[i].modId = NoModerator
     /\ pits[j].modId = NoModerator) => ~Overlap(pits[i], pits[j])

\* C16: a call of pit with no user, or with a duration that is NaN, zero or
\* negative, has thrown as soon as it was made and has performed nothing:
\* no database read or write, no channel fetch, no role update, no message.
C16_InvalidInputThrowsFirst ==
  \A c \in PitCallIds :
    (/\ pitCalls[c].pc \notin {"idle", "off"}
     /\ \/ pitCalls[c].user = NoUser
        \/ pitCalls[c].duration.nan
        \/ pitCalls[c].duration.n <= 0) =>
      /\ pitCalls[c].pc = "done"
      /\ pitCalls[c].result = "throws"
      /\ pitCalls[c].error # ""
      /\ pitCalls[c].effects = {}

\* C16's case: a call with no user and a call for a user with a duration of
\* zero have both thrown, with the table as it was at start.
C16_Witness ==
  \E c, d \in PitCallIds :
    /\ pitCalls[c].user = NoUser /\ pitCalls[c].result = "throws"
    /\ pitCalls[d].user \in Users /\ pitCalls[d].duration = Num(0)
    /\ pitCalls[d].result = "throws"
    /\ pitCalls[c].effects = {} /\ pitCalls[d].effects = {}
    /\ pits \in InitialTables

=============================================================================
